---------------------------- MODULE Spec2Model ----------------------------
(***************************************************************************)
(* The TSO Allocator Manager of server/tso/allocator_manager.go as a state *)
(* machine: the registry of allocator groups, the leader loop of each      *)
(* Local group, the update daemon with its per-tick workers, and the       *)
(* request dispatcher.  The Allocator and the Leadership are collaborators *)
(* whose code is not part of the file; their effect on the manager is      *)
(* modelled from their described contract (Initialize, UpdateTSO,          *)
(* GenerateTSO, Reset; Check, Reset) and every call that may fail fails    *)
(* nondeterministically.                                                   *)
(***************************************************************************)
EXTENDS Naturals, Sequences, FiniteSets

\* ------------------------------------------------------------------ bounds

\* Number of SetUpAllocator calls in a behaviour (each creates one group).
MaxSetUps == 2

\* Largest physical clock value an allocator reaches.
MaxPhysical == 2

\* Largest logical counter of one physical clock value.
MaxLogical == 2

\* ------------------------------------------------------------ constants

\* config.GlobalDCLocation, the reserved label of the Global allocator.
GlobalDCLocation == "GLOBAL"

\* The dc-location labels SetUpAllocator and HandleTSORequest are called with.
DCLocations == {GlobalDCLocation, "dc1"}

\* The cancellation scopes callers pass as parentCtx; "server" is also the
\* serverCtx of the AllocatorDaemon.
Contexts == {"server", "scope"}

\* The counts HandleTSORequest is called with.
Counts == {1, 2}

\* The revisions CheckAllocatorLeader reports for an observed leader.
Revisions == {7, 8}

GroupIds == 1 .. MaxSetUps

ZeroTSO == [physical |-> 0, logical |-> 0]

\* A HandleTSORequest call and its outcome: the arguments, the group the
\* registry held for the label, the group whose GenerateTSO was called and
\* with which count, what the allocator returned, what the call returned,
\* and the greatest timestamp returned for the label before the call.  A
\* GetAllocators call and its outcome: enumerated, the filters it was called
\* with and the allocators it returned, in the order returned.  A
\* SetUpAllocator call and its outcome: the group it created and the error
\* it returned.
NoResponse == [dc |-> "", count |-> 0, group |-> 0, called |-> 0,
               callCount |-> 0, allocErr |-> "", allocTs |-> ZeroTSO,
               err |-> "", ts |-> ZeroTSO, prev |-> ZeroTSO,
               enumerated |-> FALSE, filters |-> {}, allocators |-> <<>>,
               setUp |-> 0]

\* No HandleTSORequest call is in progress.  One in progress has looked up
\* group for its label and calls that group's GenerateTSO(count); rlock:
\* it holds the registry's read lock.
NoRequest == [dc |-> "", count |-> 0, group |-> 0, rlock |-> FALSE]

\* ---------------------------------------------------------------- state

VARIABLES
    groups,          \* the allocatorGroup objects created so far, by id:
                     \* [dcLocation, parentCtx] (the fields that never change)
    allocatorGroups, \* am.allocatorGroups: dc-location -> group id, 0 if absent
    tso,             \* group id -> the allocator's in-memory timestamp
    persisted,       \* store path -> the checkpoint saved under it
    leased,          \* group id -> leadership.Check() of the group's leadership
    lpc,             \* group id -> where the group's allocatorLeaderLoop is
    keepalive,       \* group id -> the campaign's child scope is live
    watching,        \* group id -> the WatchAllocatorLeader call in progress
    cancelled,       \* context -> the context is Done
    dpc,             \* where the AllocatorDaemon is
    workers,         \* group id -> number of updateAllocator workers per stage
    unpaired,        \* group id -> the manager reset the allocator and left
                     \* the leadership un-reset
    updateFailed,    \* group id -> UpdateTSO failed while the group was leading
    response,        \* the HandleTSORequest call that has just returned, and
                     \* what it returned (NoResponse after any other step)
    returned,        \* dc-location -> the greatest timestamp returned for it
    reading          \* the HandleTSORequest call in progress, when the
                     \* handler is taken step by step (NoRequest if none)

vars == <<groups, allocatorGroups, tso, persisted, leased, lpc, keepalive,
          watching, cancelled, dpc, workers, unpaired, updateFailed,
          response, returned, reading>>

\* No updateAllocator worker of a group is running.
NoWorkers == [start |-> 0, check |-> 0, update |-> 0]

\* No WatchAllocatorLeader call is in progress.
NoWatch == [leader |-> "nil", rev |-> 0, changed |-> FALSE]

Created == 1 .. Len(groups)

dcLocationOf(g) == groups[g].dcLocation

parentCtxOf(g) == groups[g].parentCtx

\* ------------------------------------------------- the allocator's contract

\* getAllocatorPath: the Global allocator keeps the old store path, a Local
\* allocator of label L stores under rootPath/L.
getAllocatorPath(dcLocation) ==
    IF dcLocation = GlobalDCLocation THEN <<"root">> ELSE <<"root", dcLocation>>

StorePaths == {getAllocatorPath(dc) : dc \in DCLocations}

pathOf(g) == getAllocatorPath(dcLocationOf(g))

\* allocator.IsInitialize(): the in-memory timestamp is set.
isInitialized(g) == tso[g].physical # 0

\* Timestamps are ordered by physical time, then by logical counter.
TsLess(a, b) ==
    \/ a.physical < b.physical
    \/ a.physical = b.physical /\ a.logical < b.logical

\* The clock resumes at the checkpoint, not past it (not the contract).
InitializedAtCheckpoint(dcLocation) ==
    [physical |-> IF persisted[getAllocatorPath(dcLocation)] = 0 THEN 1
                  ELSE persisted[getAllocatorPath(dcLocation)],
     logical |-> 0]

\* allocator.Initialize() succeeding: the clock resumes past the checkpoint
\* loaded from the store, and the new value is saved.
InitializedTSO(dcLocation) ==
    [physical |-> persisted[getAllocatorPath(dcLocation)] + 1, logical |-> 0]

\* allocator.Initialize() can succeed only while the bounded clock has room.
CanInitialize(dcLocation) == persisted[getAllocatorPath(dcLocation)] < MaxPhysical

\* allocator.UpdateTSO() advancing the clock: the logical counter restarts.
AdvancedTSO(g) == [physical |-> tso[g].physical + 1, logical |-> 0]

Max(a, b) == IF a < b THEN b ELSE a

\* allocator.GenerateTSO(count) succeeds on an initialized allocator whose
\* logical counter has room for count more timestamps.
CanGenerate(g, count) ==
    /\ isInitialized(g)
    /\ tso[g].logical + count <= MaxLogical

GeneratedTSO(g, count) ==
    [physical |-> tso[g].physical, logical |-> tso[g].logical + count]

\* ------------------------------------------------------------- registry

\* FilterUninitialized: true (exclude) on a group whose allocator is not
\* initialized.
FilterUninitialized(g) == ~isInitialized(g)

\* FilterUnavailableLeadership: true (exclude) on a group whose
\* leadership.Check() is false.
FilterUnavailableLeadership(g) == ~leased[g]

\* The filters there are, by name.
ApplyFilter(f, g) ==
    IF f = "FilterUninitialized" THEN FilterUninitialized(g)
    ELSE FilterUnavailableLeadership(g)

FilterNames == {"FilterUninitialized", "FilterUnavailableLeadership"}

\* The tick enumerates with the leadership filter alone (not the code).
leadershipFilterOnly == {"FilterUnavailableLeadership"}

\* The filters the daemon's tick enumerates with.
daemonFilters == FilterNames

\* The groups the registry holds.
Registered == {allocatorGroups[dc] : dc \in DCLocations} \ {0}

\* A group is kept unless every filter excludes it (not the code).
notAllOf(filters, g) == \E f \in filters : ~ApplyFilter(f, g)

\* slice.NoneOf(filters, ...): no filter returns true on the group.
noneOf(filters, g) == \A f \in filters : ~ApplyFilter(f, g)

\* getAllocatorGroups(filters...): the registered groups on which none of
\* the filters returns true.
getAllocatorGroups(filters) ==
    {g \in Registered : noneOf(filters, g)}

\* The orders in which a range over am.allocatorGroups can visit the labels.
RangeOrders ==
    {o \in [1 .. Cardinality(DCLocations) -> DCLocations] :
        \A i, j \in 1 .. Cardinality(DCLocations) : i # j => o[i] # o[j]}

\* The slice getAllocatorGroups builds when the range visits the labels in
\* the given order: the group of each label that has one is appended when
\* none of the filters returns true on it.
RECURSIVE appendEach(_, _)
appendEach(order, filters) ==
    IF order = <<>> THEN <<>>
    ELSE IF allocatorGroups[Head(order)] # 0
            /\ noneOf(filters, allocatorGroups[Head(order)])
         THEN <<allocatorGroups[Head(order)]>> \o appendEach(Tail(order), filters)
         ELSE appendEach(Tail(order), filters)

\* Every label is served by the Global group (not the code).
lookupGlobal(dcLocation) == allocatorGroups[GlobalDCLocation]

\* The group HandleTSORequest and GetAllocator look a label up to.
lookup(dcLocation) == allocatorGroups[dcLocation]

\* ----------------------------------------------------------------- Init

Init ==
    /\ groups = <<>>
    /\ allocatorGroups = [dc \in DCLocations |-> 0]
    /\ tso = [g \in GroupIds |-> ZeroTSO]
    /\ persisted = [p \in StorePaths |-> 0]
    /\ leased = [g \in GroupIds |-> FALSE]
    /\ lpc = [g \in GroupIds |-> "none"]
    /\ keepalive = [g \in GroupIds |-> FALSE]
    /\ watching = [g \in GroupIds |-> NoWatch]
    /\ cancelled = [c \in Contexts |-> FALSE]
    /\ dpc = "select"
    /\ workers = [g \in GroupIds |-> NoWorkers]
    /\ unpaired = [g \in GroupIds |-> FALSE]
    /\ updateFailed = [g \in GroupIds |-> FALSE]
    /\ response = NoResponse
    /\ returned = [dc \in DCLocations |-> ZeroTSO]
    /\ reading = NoRequest

\* ------------------------------------------------------- SetUpAllocator

\* An entry of the label that is already there is kept (not the code).
registerIfAbsent(dcLocation, g) ==
    IF allocatorGroups[dcLocation] = 0
    THEN [allocatorGroups EXCEPT ![dcLocation] = g]
    ELSE allocatorGroups

\* am.allocatorGroups[dcLocation] = &allocatorGroup{...}: the new group is
\* the entry of the label, whether or not there was one.
register(dcLocation, g) == [allocatorGroups EXCEPT ![dcLocation] = g]

\* Every group gets a leader loop (not the code).
loopForAll(dcLocation) == "top"

\* Where the leader loop of a new group is: the Global group has none, a
\* Local group's is spawned at the top of its first iteration.
loopSpawned(dcLocation) ==
    IF dcLocation = GlobalDCLocation THEN "none" ELSE "top"

\* What SetUpAllocator returns: the error of the Global allocator's
\* Initialize, nil otherwise.
setUpErr(dcLocation, ok) ==
    IF dcLocation = GlobalDCLocation /\ ~ok THEN "Initialize" ELSE ""

\* SetUpAllocator(parentCtx, parentCancel, dcLocation, leadership): a new
\* allocator and group replace the entry of dcLocation; the Global allocator
\* is initialized on the spot (ok: Initialize succeeds), a Local one gets a
\* leader loop.  The Global group's leadership is the PD leader's, held by
\* the caller; a Local group's leadership is not yet campaigned.
SetUpAllocator(parentCtx, dcLocation, ok) ==
    LET g == Len(groups) + 1 IN
    /\ Len(groups) < MaxSetUps
    /\ ok => CanInitialize(dcLocation)
    /\ groups' = Append(groups, [dcLocation |-> dcLocation, parentCtx |-> parentCtx])
    /\ allocatorGroups' = register(dcLocation, g)
    /\ leased' = [leased EXCEPT ![g] = (dcLocation = GlobalDCLocation)]
    /\ IF dcLocation = GlobalDCLocation
       THEN /\ IF ok
               THEN /\ tso' = [tso EXCEPT ![g] = InitializedTSO(dcLocation)]
                    /\ persisted' = [persisted EXCEPT
                          ![getAllocatorPath(dcLocation)] =
                              InitializedTSO(dcLocation).physical]
               ELSE UNCHANGED <<tso, persisted>>
       ELSE UNCHANGED <<tso, persisted>>
    /\ lpc' = [lpc EXCEPT ![g] = loopSpawned(dcLocation)]
    /\ response' = [NoResponse EXCEPT !.setUp = g,
                                      !.err = setUpErr(dcLocation, ok)]
    /\ UNCHANGED <<reading, keepalive, watching, cancelled, dpc, workers, unpaired,
                   updateFailed, returned>>

\* --------------------------------------------------- resetAllocatorGroup

\* The group resetAllocatorGroup(dcLocation) resets: the one the registry
\* holds for the label now.
resetTarget(dcLocation) == allocatorGroups[dcLocation]

\* The deferred reset is left out (not the code).
resetNothing(dcLocation) == UNCHANGED <<tso, leased, unpaired>>

\* resetAllocatorGroup(dcLocation): under the lock, allocator.Reset() and
\* leadership.Reset() of the registered group of the label, if there is one.
resetAllocatorGroup(dcLocation) ==
    LET r == resetTarget(dcLocation) IN
    IF r # 0
    THEN /\ tso' = [tso EXCEPT ![r] = ZeroTSO]
         /\ leased' = [leased EXCEPT ![r] = FALSE]
         /\ unpaired' = [unpaired EXCEPT ![r] = FALSE]
    ELSE UNCHANGED <<tso, leased, unpaired>>

\* ---------------------------------------------------- allocatorLeaderLoop

\* The loop returns on the server's scope, whatever its own (not the code).
serverCtxDone(g) == cancelled["server"]

\* <-parentCtx.Done() in the select at the top of an iteration.
parentCtxDone(g) == cancelled[parentCtxOf(g)]

\* The loop's select at the top of an iteration finds parentCtx done: return.
LoopReturn(g) ==
    /\ lpc[g] = "top"
    /\ parentCtxDone(g)
    /\ lpc' = [lpc EXCEPT ![g] = "done"]
    /\ response' = NoResponse
    /\ UNCHANGED <<reading, groups, allocatorGroups, tso, persisted, leased, keepalive,
                   watching, cancelled, dpc, workers, unpaired, updateFailed,
                   returned>>

\* Where the loop goes after CheckAllocatorLeader: round again on checkAgain,
\* watch the observed leader, or campaign when there is none.
afterCheck(checkAgain, leader) ==
    IF checkAgain THEN "top"
    ELSE IF leader # "nil" THEN "watch"
    ELSE "campaign"

\* The WatchAllocatorLeader(parentCtx, allocatorLeader, rev) call the loop
\* makes with what CheckAllocatorLeader returned.
watchCall(leader, rev) == [leader |-> leader, rev |-> rev, changed |-> FALSE]

\* parentCtx is not done: CheckAllocatorLeader returns (leader, rev,
\* checkAgain).
LoopCheck(g, checkAgain, leader, rev) ==
    /\ lpc[g] = "top"
    /\ ~parentCtxDone(g)
    /\ lpc' = [lpc EXCEPT ![g] = afterCheck(checkAgain, leader)]
    /\ watching' = [watching EXCEPT ![g] =
          IF afterCheck(checkAgain, leader) = "watch"
          THEN watchCall(leader, rev) ELSE NoWatch]
    /\ response' = NoResponse
    /\ UNCHANGED <<reading, groups, allocatorGroups, tso, persisted, leased, keepalive,
                   cancelled, dpc, workers, unpaired, updateFailed, returned>>

\* The leader a loop watches changes (its key is deleted or rewritten).
LeaderChanged(g) ==
    /\ lpc[g] = "watch"
    /\ ~watching[g].changed
    /\ watching' = [watching EXCEPT ![g].changed = TRUE]
    /\ response' = NoResponse
    /\ UNCHANGED <<reading, groups, allocatorGroups, tso, persisted, leased, lpc,
                   keepalive, cancelled, dpc, workers, unpaired, updateFailed,
                   returned>>

\* WatchAllocatorLeader returns when the watched leader has changed or
\* parentCtx is cancelled.
watchReturns(g) == watching[g].changed \/ cancelled[parentCtxOf(g)]

\* WatchAllocatorLeader returns; the loop goes on to
\* campaignAllocatorLeader without looking at parentCtx.
WatchReturn(g) ==
    /\ lpc[g] = "watch"
    /\ watchReturns(g)
    /\ lpc' = [lpc EXCEPT ![g] = "campaign"]
    /\ watching' = [watching EXCEPT ![g] = NoWatch]
    /\ response' = NoResponse
    /\ UNCHANGED <<reading, groups, allocatorGroups, tso, persisted, leased, keepalive,
                   cancelled, dpc, workers, unpaired, updateFailed, returned>>

\* ------------------------------------------------ campaignAllocatorLeader

\* The error of CampaignAllocatorLeader is ignored (not the code).
afterCampaignIgnoringErr(ok) == "initialize"

\* Where the campaign goes after CampaignAllocatorLeader(lease): a failure
\* returns to the loop, a success goes on to Initialize with the keepalive
\* worker started.
afterCampaign(ok) == IF ok THEN "initialize" ELSE "top"

\* CampaignAllocatorLeader(defaultAllocatorLeaderLease = 3) fails: back to the
\* loop.  It succeeds: the lease is held, the child scope is opened and the
\* keepalive worker started on it.
Campaign(g, ok) ==
    /\ lpc[g] = "campaign"
    /\ lpc' = [lpc EXCEPT ![g] = afterCampaign(ok)]
    /\ leased' = [leased EXCEPT ![g] = @ \/ ok]
    /\ keepalive' = [keepalive EXCEPT ![g] = (afterCampaign(ok) # "top")]
    /\ response' = NoResponse
    /\ UNCHANGED <<reading, groups, allocatorGroups, tso, persisted, watching,
                   cancelled, dpc, workers, unpaired, updateFailed, returned>>

\* Where the campaign goes after allocator.Initialize(): a failure returns
\* (line 187), a success goes on to EnableAllocatorLeader.
afterInitialize(ok) == IF ok THEN "enable" ELSE "initFailed"

\* allocator.Initialize() of the campaigning allocator.
Initialize(g, ok) ==
    /\ lpc[g] = "initialize"
    /\ ok => CanInitialize(dcLocationOf(g))
    /\ IF ok
       THEN /\ tso' = [tso EXCEPT ![g] = InitializedTSO(dcLocationOf(g))]
            /\ persisted' = [persisted EXCEPT ![pathOf(g)] =
                                 InitializedTSO(dcLocationOf(g)).physical]
            /\ unpaired' = [unpaired EXCEPT ![g] = FALSE]
       ELSE UNCHANGED <<tso, persisted, unpaired>>
    /\ lpc' = [lpc EXCEPT ![g] = afterInitialize(ok)]
    /\ response' = NoResponse
    /\ UNCHANGED <<reading, groups, allocatorGroups, leased, keepalive, watching,
                   cancelled, dpc, workers, updateFailed, returned>>

\* allocator.EnableAllocatorLeader(): the allocator serves; the leader
\* ticker starts.
EnableAllocatorLeader(g) ==
    /\ lpc[g] = "enable"
    /\ lpc' = [lpc EXCEPT ![g] = "leading"]
    /\ response' = NoResponse
    /\ UNCHANGED <<reading, groups, allocatorGroups, tso, persisted, leased, keepalive,
                   watching, cancelled, dpc, workers, unpaired, updateFailed,
                   returned>>

\* allocator.IsStillAllocatorLeader(): the lease is still held.
IsStillAllocatorLeader(g) == leased[g]

\* A leader tick finds the lease expired: the campaign returns (line 204).
\* A tick that finds the lease held changes nothing.
LeaderTick(g) ==
    /\ lpc[g] = "leading"
    /\ ~IsStillAllocatorLeader(g)
    /\ lpc' = [lpc EXCEPT ![g] = "stepDown"]
    /\ response' = NoResponse
    /\ UNCHANGED <<reading, groups, allocatorGroups, tso, persisted, leased, keepalive,
                   watching, cancelled, dpc, workers, unpaired, updateFailed,
                   returned>>

\* The child scope is done (its parent was cancelled): the campaign returns
\* (line 211).
LeaderCtxDone(g) ==
    /\ lpc[g] = "leading"
    /\ cancelled[parentCtxOf(g)]
    /\ lpc' = [lpc EXCEPT ![g] = "ctxDone"]
    /\ response' = NoResponse
    /\ UNCHANGED <<reading, groups, allocatorGroups, tso, persisted, leased, keepalive,
                   watching, cancelled, dpc, workers, unpaired, updateFailed,
                   returned>>

\* The returns of campaignAllocatorLeader that have the deferred calls
\* pending: Initialize failed, the lease expired, the scope is done.
Returning == {"initFailed", "stepDown", "ctxDone"}

\* The campaign returns after a won campaign: the deferred
\* resetAllocatorGroup(dcLocation) runs, then the child scope is cancelled,
\* and the loop is back at the top.
CampaignExit(g) ==
    /\ lpc[g] \in Returning
    /\ resetAllocatorGroup(dcLocationOf(g))
    /\ keepalive' = [keepalive EXCEPT ![g] = FALSE]
    /\ lpc' = [lpc EXCEPT ![g] = "top"]
    /\ response' = NoResponse
    /\ UNCHANGED <<reading, groups, allocatorGroups, persisted, watching, cancelled,
                   dpc, workers, updateFailed, returned>>

\* -------------------------------------------------------- AllocatorDaemon

\* The daemon goes on without waiting for its workers (not the code).
wgNoWait == TRUE

\* am.wg.Wait(): every worker of the tick has called wg.Done().
wgWait ==
    \A g \in GroupIds : workers[g] = NoWorkers

\* A tick of tsTicker: the daemon enumerates the initialized groups with
\* available leadership, starts one updateAllocator worker for each, and
\* waits for all of them before its next select.
AllocatorDaemonTick ==
    /\ dpc = "select"
    /\ wgWait
    /\ workers' = [g \in GroupIds |->
          IF g \in getAllocatorGroups(daemonFilters)
          THEN [workers[g] EXCEPT !.start = @ + 1]
          ELSE workers[g]]
    /\ response' = NoResponse
    /\ UNCHANGED <<reading, groups, allocatorGroups, tso, persisted, leased, lpc,
                   keepalive, watching, cancelled, dpc, unpaired, updateFailed,
                   returned>>

\* serverCtx is done: the daemon returns.
AllocatorDaemonDone ==
    /\ dpc = "select"
    /\ wgWait
    /\ cancelled["server"]
    /\ dpc' = "done"
    /\ response' = NoResponse
    /\ UNCHANGED <<reading, groups, allocatorGroups, tso, persisted, leased, lpc,
                   keepalive, watching, cancelled, workers, unpaired,
                   updateFailed, returned>>

\* -------------------------------------------------------- updateAllocator

\* The worker's first select: on a done parentCtx it resets the allocator
\* (and nothing else) and returns; otherwise it goes on to check leadership.
UpdateCheckCtx(g) ==
    /\ workers[g].start > 0
    /\ IF cancelled[parentCtxOf(g)]
       THEN /\ tso' = [tso EXCEPT ![g] = ZeroTSO]
            /\ unpaired' = [unpaired EXCEPT ![g] = TRUE]
            /\ workers' = [workers EXCEPT ![g].start = @ - 1]
       ELSE /\ workers' = [workers EXCEPT ![g].start = @ - 1, ![g].check = @ + 1]
            /\ UNCHANGED <<tso, unpaired>>
    /\ response' = NoResponse
    /\ UNCHANGED <<reading, groups, allocatorGroups, persisted, leased, lpc, keepalive,
                   watching, cancelled, dpc, updateFailed, returned>>

\* The worker goes on to UpdateTSO whatever leadership.Check() says (not
\* the code).
UpdateSkipLeadershipCheck(g) ==
    /\ workers[g].check > 0
    /\ workers' = [workers EXCEPT ![g].check = @ - 1, ![g].update = @ + 1]
    /\ response' = NoResponse
    /\ UNCHANGED <<reading, groups, allocatorGroups, tso, persisted, leased,
                   lpc, keepalive, watching, cancelled, dpc, unpaired,
                   updateFailed, returned>>

\* The worker's own leadership.Check(): false, it sleeps and returns; true,
\* it goes on to UpdateTSO.
UpdateCheckLeadership(g) ==
    /\ workers[g].check > 0
    /\ workers' = IF leased[g]
                  THEN [workers EXCEPT ![g].check = @ - 1, ![g].update = @ + 1]
                  ELSE [workers EXCEPT ![g].check = @ - 1]
    /\ response' = NoResponse
    /\ UNCHANGED <<reading, groups, allocatorGroups, tso, persisted, leased, lpc,
                   keepalive, watching, cancelled, dpc, unpaired, updateFailed,
                   returned>>

\* allocator.UpdateTSO() returns.  On success the clock has advanced or
\* stayed (advance), with the checkpoint saved when it is passed; a cleared
\* clock cannot be updated.  On an error the worker calls parentCancel.
UpdateTSO(g, ok, advance) ==
    /\ workers[g].update > 0
    /\ ok => isInitialized(g)
    /\ advance => ok /\ tso[g].physical < MaxPhysical
    /\ workers' = [workers EXCEPT ![g].update = @ - 1]
    /\ IF advance
       THEN /\ tso' = [tso EXCEPT ![g] = AdvancedTSO(g)]
            /\ persisted' = [persisted EXCEPT ![pathOf(g)] =
                                 Max(@, AdvancedTSO(g).physical)]
       ELSE UNCHANGED <<tso, persisted>>
    /\ IF ok
       THEN UNCHANGED <<cancelled, updateFailed>>
       ELSE /\ cancelled' = [cancelled EXCEPT ![parentCtxOf(g)] = TRUE]
            /\ updateFailed' = [updateFailed EXCEPT ![g] = @ \/ lpc[g] = "leading"]
    /\ response' = NoResponse
    /\ UNCHANGED <<reading, groups, allocatorGroups, leased, lpc, keepalive, watching,
                   dpc, unpaired, returned>>

\* ------------------------------------------------------- HandleTSORequest

\* What HandleTSORequest returns when the label is absent: ErrGetAllocator,
\* and no allocator is called.
notFound(dcLocation, count) ==
    [NoResponse EXCEPT !.dc = dcLocation, !.count = count,
                       !.group = allocatorGroups[dcLocation],
                       !.err = "ErrGetAllocator",
                       !.prev = returned[dcLocation]]

\* What HandleTSORequest returns when group g is registered for the label:
\* the result of g's allocator.GenerateTSO(count), as it is.
forwarded(dcLocation, count, g) ==
    [NoResponse EXCEPT
        !.dc = dcLocation, !.count = count,
        !.group = allocatorGroups[dcLocation],
        !.called = g, !.callCount = count,
        !.allocErr = IF CanGenerate(g, count) THEN "" ELSE "GenerateTSO",
        !.allocTs = IF CanGenerate(g, count) THEN GeneratedTSO(g, count) ELSE ZeroTSO,
        !.err = IF CanGenerate(g, count) THEN "" ELSE "GenerateTSO",
        !.ts = IF CanGenerate(g, count) THEN GeneratedTSO(g, count) ELSE ZeroTSO,
        !.prev = returned[dcLocation]]

\* HandleTSORequest(dcLocation, count): under the read lock, the label is
\* looked up; absent, ErrGetAllocator is returned; present, the group's
\* allocator.GenerateTSO(count) is called and its result returned.
HandleTSORequest(dcLocation, count) ==
    LET g == lookup(dcLocation) IN
    /\ IF g = 0
       THEN /\ response' = notFound(dcLocation, count)
            /\ UNCHANGED <<tso, returned>>
       ELSE /\ response' = forwarded(dcLocation, count, g)
            /\ IF CanGenerate(g, count)
               THEN /\ tso' = [tso EXCEPT ![g] = GeneratedTSO(g, count)]
                    /\ returned' = [returned EXCEPT ![dcLocation] =
                           IF TsLess(@, GeneratedTSO(g, count))
                           THEN GeneratedTSO(g, count) ELSE @]
               ELSE UNCHANGED <<tso, returned>>
    /\ UNCHANGED <<reading, groups, allocatorGroups, persisted, leased, lpc, keepalive,
                   watching, cancelled, dpc, workers, unpaired, updateFailed>>

\* HandleTSORequest step by step.  am.RLock(), the lookup of the label and,
\* for an absent label, the return of ErrGetAllocator with the deferred
\* RUnlock; for a label that is present the handler goes on to
\* allocator.GenerateTSO(count) with the read lock held (RUnlock is
\* deferred to its return).
RequestLookup(dcLocation, count) ==
    /\ reading = NoRequest
    /\ IF lookup(dcLocation) = 0
       THEN /\ response' = notFound(dcLocation, count)
            /\ UNCHANGED reading
       ELSE /\ response' = NoResponse
            /\ reading' = [dc |-> dcLocation, count |-> count,
                           group |-> lookup(dcLocation), rlock |-> TRUE]
    /\ UNCHANGED <<groups, allocatorGroups, tso, persisted, leased, lpc,
                   keepalive, watching, cancelled, dpc, workers, unpaired,
                   updateFailed, returned>>

\* allocator.GenerateTSO(count) of the group looked up returns, the handler
\* returns its result, and the deferred RUnlock releases the read lock.
RequestGenerate ==
    /\ reading.group # 0
    /\ response' = forwarded(reading.dc, reading.count, reading.group)
    /\ IF CanGenerate(reading.group, reading.count)
       THEN /\ tso' = [tso EXCEPT ![reading.group] =
                           GeneratedTSO(reading.group, reading.count)]
            /\ returned' = [returned EXCEPT ![reading.dc] =
                   IF TsLess(@, GeneratedTSO(reading.group, reading.count))
                   THEN GeneratedTSO(reading.group, reading.count) ELSE @]
       ELSE UNCHANGED <<tso, returned>>
    /\ reading' = NoRequest
    /\ UNCHANGED <<groups, allocatorGroups, persisted, leased, lpc, keepalive,
                   watching, cancelled, dpc, workers, unpaired, updateFailed>>

\* am.Lock() can be taken: no reader holds the read lock.
canLock == ~reading.rlock

\* ---------------------------------------------------------- GetAllocators

\* GetAllocators(filters...): the allocators of the groups
\* getAllocatorGroups(filters...) returns, in its order; under the read
\* lock, nothing is written.
GetAllocators(filters, order) ==
    /\ response' = [NoResponse EXCEPT !.enumerated = TRUE,
                                      !.filters = filters,
                                      !.allocators = appendEach(order, filters)]
    /\ UNCHANGED <<reading, groups, allocatorGroups, tso, persisted, leased, lpc,
                   keepalive, watching, cancelled, dpc, workers, unpaired,
                   updateFailed, returned>>

\* ------------------------------------------------------- the environment

\* A caller cancels a scope.
CancelContext(c) ==
    /\ ~cancelled[c]
    /\ cancelled' = [cancelled EXCEPT ![c] = TRUE]
    /\ response' = NoResponse
    /\ UNCHANGED <<reading, groups, allocatorGroups, tso, persisted, leased, lpc,
                   keepalive, watching, dpc, workers, unpaired, updateFailed,
                   returned>>

\* The lease of a group's leadership expires.
LeaseExpire(g) ==
    /\ leased[g]
    /\ leased' = [leased EXCEPT ![g] = FALSE]
    /\ response' = NoResponse
    /\ UNCHANGED <<reading, groups, allocatorGroups, tso, persisted, lpc, keepalive,
                   watching, cancelled, dpc, workers, unpaired, updateFailed,
                   returned>>

\* ------------------------------------------------------------------ Next

\* The steps of the manager's own tasks and of its environment.
Next ==
    \/ \E c \in Contexts, dc \in DCLocations, ok \in BOOLEAN :
          /\ dc # GlobalDCLocation => ok
          /\ SetUpAllocator(c, dc, ok)
    \/ \E g \in Created : LoopReturn(g)
    \/ \E g \in Created, again \in BOOLEAN, leader \in {"nil", "other"},
          rev \in Revisions : LoopCheck(g, again, leader, rev)
    \/ \E g \in Created : LeaderChanged(g)
    \/ \E g \in Created : WatchReturn(g)
    \/ \E g \in Created, ok \in BOOLEAN : Campaign(g, ok)
    \/ \E g \in Created, ok \in BOOLEAN : Initialize(g, ok)
    \/ \E g \in Created : EnableAllocatorLeader(g)
    \/ \E g \in Created : LeaderTick(g)
    \/ \E g \in Created : LeaderCtxDone(g)
    \/ \E g \in Created : CampaignExit(g)
    \/ AllocatorDaemonTick
    \/ AllocatorDaemonDone
    \/ \E g \in Created : UpdateCheckCtx(g)
    \/ \E g \in Created : UpdateCheckLeadership(g)
    \/ \E g \in Created, ok \in BOOLEAN, advance \in BOOLEAN : UpdateTSO(g, ok, advance)
    \/ \E c \in Contexts : CancelContext(c)
    \/ \E g \in Created : LeaseExpire(g)

Spec == Init /\ [][Next]_vars

\* The manager serving requests: the steps of Next with HandleTSORequest
\* added, every group set up on the server's scope and no other leader
\* observed by CheckAllocatorLeader (a loop campaigns at once); a scope is
\* cancelled by the parentCancel of a failed update.
ServeNext ==
    \/ \E dc \in DCLocations, ok \in BOOLEAN :
          /\ dc # GlobalDCLocation => ok
          /\ SetUpAllocator("server", dc, ok)
    \/ \E g \in Created : LoopReturn(g)
    \/ \E g \in Created, again \in BOOLEAN, rev \in Revisions :
          LoopCheck(g, again, "nil", rev)
    \/ \E g \in Created, ok \in BOOLEAN : Campaign(g, ok)
    \/ \E g \in Created, ok \in BOOLEAN : Initialize(g, ok)
    \/ \E g \in Created : EnableAllocatorLeader(g)
    \/ \E g \in Created : LeaderTick(g)
    \/ \E g \in Created : LeaderCtxDone(g)
    \/ \E g \in Created : CampaignExit(g)
    \/ AllocatorDaemonTick
    \/ AllocatorDaemonDone
    \/ \E g \in Created : UpdateCheckCtx(g)
    \/ \E g \in Created : UpdateCheckLeadership(g)
    \/ \E g \in Created, ok \in BOOLEAN, advance \in BOOLEAN : UpdateTSO(g, ok, advance)
    \/ \E g \in Created : LeaseExpire(g)
    \/ \E dc \in DCLocations, count \in Counts : HandleTSORequest(dc, count)

ServeSpec == Init /\ [][ServeNext]_vars

\* The manager being queried: the steps of ServeNext with GetAllocators in
\* the place of HandleTSORequest.
QueryNext ==
    \/ \E dc \in DCLocations, ok \in BOOLEAN :
          /\ dc # GlobalDCLocation => ok
          /\ SetUpAllocator("server", dc, ok)
    \/ \E g \in Created : LoopReturn(g)
    \/ \E g \in Created, again \in BOOLEAN, rev \in Revisions :
          LoopCheck(g, again, "nil", rev)
    \/ \E g \in Created, ok \in BOOLEAN : Campaign(g, ok)
    \/ \E g \in Created, ok \in BOOLEAN : Initialize(g, ok)
    \/ \E g \in Created : EnableAllocatorLeader(g)
    \/ \E g \in Created : LeaderTick(g)
    \/ \E g \in Created : LeaderCtxDone(g)
    \/ \E g \in Created : CampaignExit(g)
    \/ AllocatorDaemonTick
    \/ AllocatorDaemonDone
    \/ \E g \in Created : UpdateCheckCtx(g)
    \/ \E g \in Created : UpdateCheckLeadership(g)
    \/ \E g \in Created, ok \in BOOLEAN, advance \in BOOLEAN : UpdateTSO(g, ok, advance)
    \/ \E g \in Created : LeaseExpire(g)
    \/ \E filters \in SUBSET FilterNames, order \in RangeOrders :
          GetAllocators(filters, order)

QuerySpec == Init /\ [][QueryNext]_vars

\* The manager serving requests, with HandleTSORequest taken step by step
\* and the writers of the registry (SetUpAllocator, resetAllocatorGroup)
\* waiting for the lock; the daemon is not running.
LockNext ==
    \/ \E dc \in DCLocations, ok \in BOOLEAN :
          /\ dc # GlobalDCLocation => ok
          /\ canLock
          /\ SetUpAllocator("server", dc, ok)
    \/ \E g \in Created, again \in BOOLEAN, rev \in Revisions :
          LoopCheck(g, again, "nil", rev)
    \/ \E g \in Created, ok \in BOOLEAN : Campaign(g, ok)
    \/ \E g \in Created, ok \in BOOLEAN : Initialize(g, ok)
    \/ \E g \in Created : EnableAllocatorLeader(g)
    \/ \E g \in Created : LeaderTick(g)
    \/ \E g \in Created : canLock /\ CampaignExit(g)
    \/ \E g \in Created : LeaseExpire(g)
    \/ \E dc \in DCLocations, count \in Counts : RequestLookup(dc, count)
    \/ RequestGenerate

LockSpec == Init /\ [][LockNext]_vars

\* ------------------------------------------------------------- the claims

\* The groups of a label, registered or replaced.
GroupsOf(dc) == {g \in Created : dcLocationOf(g) = dc}

\* C1: every allocator.Reset() the manager calls on a group comes with a
\* leadership.Reset() on the same group in the same critical section: no
\* group has its allocator reset by the manager with its leadership left
\* un-reset.  (updateAllocator resets the allocator alone.)
C1_ResetPairing ==
    \A g \in GroupIds : ~unpaired[g]

\* C2: once UpdateTSO has failed for a leading Local group, the group's
\* leader loop has terminated only with the group's allocator and leadership
\* reset (the final state the claim promises after parentCancel).
C2_UpdateFailureFatal ==
    \A g \in Created :
        (updateFailed[g] /\ lpc[g] = "done") => (~isInitialized(g) /\ ~leased[g])

\* The number of UpdateTSO calls in flight for a label.
InFlight(dc) == Cardinality({g \in GroupsOf(dc) : workers[g].update > 0})

\* A tick's enumeration: the step that starts workers.
StartsWorkers ==
    \E g \in GroupIds : workers'[g].start > workers[g].start

\* C3: with one AllocatorDaemon, at most one UpdateTSO call is in flight for
\* a label at any instant, and the daemon starts the workers of a tick only
\* when every worker of the previous tick has finished.
C3_FanOutBarrier ==
    /\ [](\A dc \in DCLocations :
            /\ InFlight(dc) <= 1
            /\ \A g \in GroupsOf(dc) : workers[g].update <= 1)
    /\ [][StartsWorkers => \A g \in GroupIds : workers[g] = NoWorkers]_vars

\* C3's case: an UpdateTSO call is in flight for a group whose entry has
\* been replaced in the registry since the tick enumerated it.
C3_Witness ==
    \E g \in Created :
        /\ workers[g].update = 1
        /\ allocatorGroups[dcLocationOf(g)] # g

\* The labels SetUpAllocator has been called with.
Supplied == {dcLocationOf(g) : g \in Created}

\* The last group set up with a label.
LastOf(dc) == CHOOSE g \in GroupsOf(dc) : \A h \in GroupsOf(dc) : h <= g

\* C10: after any sequence of SetUpAllocator calls the registry holds one
\* group for each label supplied and none for any other, so its size is the
\* number of distinct labels supplied; the entry of a label is the group of
\* the last call with that label.
C10_UniqueRegistration ==
    /\ Cardinality(Registered) = Cardinality(Supplied)
    /\ \A dc \in DCLocations :
          IF dc \in Supplied
          THEN allocatorGroups[dc] = LastOf(dc)
          ELSE allocatorGroups[dc] = 0

\* C10's case: a label was supplied twice, the first time with a Global
\* group whose Initialize failed.
C10_Witness ==
    /\ Len(groups) = 2
    /\ dcLocationOf(1) = dcLocationOf(2)
    /\ dcLocationOf(1) = GlobalDCLocation
    /\ ~isInitialized(1)
    /\ allocatorGroups[GlobalDCLocation] = 2

\* The loop of g takes a step.
Moved(g) == lpc'[g] # lpc[g]

\* resetAllocatorGroup(dc) has run in the step: the group registered for
\* the label has its allocator and its leadership reset.
ResetRan(dc) ==
    allocatorGroups[dc] # 0 =>
        /\ tso'[allocatorGroups[dc]] = ZeroTSO
        /\ ~leased'[allocatorGroups[dc]]

\* C6: in every campaign round of a Local group the calls come in the order
\* CampaignAllocatorLeader won (the lease held), KeepAllocatorLeader started,
\* Initialize, EnableAllocatorLeader; EnableAllocatorLeader is called only
\* after a won campaign and a successful Initialize of the same round; a
\* failed campaign returns to the loop with no keepalive worker; a failed
\* Initialize is followed by the reset of the campaigning group (its
\* allocator and its leadership) before the loop is back at its top, where
\* the next CheckAllocatorLeader is issued.
C6_CampaignOrder ==
    [][\A g \in GroupIds :
        /\ (lpc[g] = "campaign" /\ Moved(g)) =>
              \/ lpc'[g] = "top" /\ ~keepalive'[g] /\ leased'[g] = leased[g]
              \/ lpc'[g] = "initialize" /\ leased'[g] /\ keepalive'[g]
        /\ (lpc'[g] = "initialize" /\ Moved(g)) => lpc[g] = "campaign"
        /\ (lpc[g] = "initialize" /\ Moved(g)) =>
              \/ lpc'[g] = "enable" /\ tso'[g].physical # 0 /\ keepalive[g]
              \/ lpc'[g] = "initFailed" /\ tso'[g] = tso[g]
        /\ (lpc'[g] = "enable" /\ Moved(g)) => lpc[g] = "initialize"
        /\ (lpc[g] = "enable" /\ Moved(g)) => lpc'[g] = "leading"
        /\ (lpc'[g] = "leading" /\ Moved(g)) => lpc[g] = "enable"
        /\ (lpc[g] = "initFailed" /\ Moved(g)) =>
              /\ lpc'[g] = "top"
              /\ tso'[g] = ZeroTSO
              /\ ~leased'[g]
      ]_vars

\* C7: a leader tick on which IsStillAllocatorLeader is false makes the
\* campaign return; the return runs resetAllocatorGroup of the label and
\* cancels the keepalive child scope, and only then is the loop back at its
\* top (where it issues the next CheckAllocatorLeader): it does not
\* terminate there.
C7_LeaseExpiry ==
    [][\A g \in GroupIds :
        /\ (lpc'[g] = "stepDown" /\ Moved(g)) =>
              lpc[g] = "leading" /\ ~leased[g]
        /\ (lpc[g] = "leading" /\ Moved(g) /\ ~cancelled[parentCtxOf(g)]) =>
              lpc'[g] = "stepDown"
        /\ (lpc[g] = "stepDown" /\ Moved(g)) =>
              /\ lpc'[g] = "top"
              /\ ResetRan(dcLocationOf(g))
              /\ ~keepalive'[g]
      ]_vars

\* C7's case: a leading group's tick has found the lease expired, with the
\* allocator still initialized and the keepalive worker running.
C7_Witness ==
    \E g \in Created : lpc[g] = "stepDown" /\ keepalive[g] /\ isInitialized(g)

\* C8: a loop whose CheckAllocatorLeader reports a leader with revision R
\* enters WatchAllocatorLeader with that leader and R; it leaves the watch
\* for a campaign only when the watched leader has changed; one
\* CampaignAllocatorLeader is then issued before the next
\* CheckAllocatorLeader.
C8_WatchHandoff ==
    [][\A g \in GroupIds :
        /\ (lpc'[g] = "watch" /\ Moved(g)) =>
              /\ lpc[g] = "top"
              /\ watching'[g].leader # "nil"
              /\ watching'[g].rev \in Revisions
        /\ (lpc[g] = "watch" /\ Moved(g)) =>
              lpc'[g] = "campaign" /\ watching[g].changed
        /\ (lpc[g] = "campaign" /\ Moved(g)) => lpc'[g] \in {"top", "initialize"}
      ]_vars

\* A step of the leader loop of g that does not wait on the environment:
\* a return, a call that returns, a select case that is ready.
LoopStep(g) ==
    \/ LoopReturn(g)
    \/ WatchReturn(g)
    \/ \E ok \in BOOLEAN : Campaign(g, ok)
    \/ \E ok \in BOOLEAN : Initialize(g, ok)
    \/ EnableAllocatorLeader(g)
    \/ LeaderCtxDone(g)
    \/ CampaignExit(g)

\* A step of an updateAllocator worker of g.
WorkerStep(g) ==
    \/ UpdateCheckCtx(g)
    \/ UpdateCheckLeadership(g)
    \/ \E ok \in BOOLEAN, advance \in BOOLEAN : UpdateTSO(g, ok, advance)

\* The scheduler starves no task and external calls return (a task that can
\* take a step takes one); the daemon's select, with serverCtx done each
\* time it is reached, takes that case sooner or later.
Fairness ==
    /\ \A g \in GroupIds : WF_vars(LoopStep(g)) /\ WF_vars(WorkerStep(g))
    /\ SF_vars(AllocatorDaemonDone)

LiveSpec == Spec /\ Fairness

C5_RequestDispatch ==
    response.dc # "" =>
        IF response.group = 0
        THEN /\ response.err = "ErrGetAllocator"
             /\ response.called = 0
        ELSE /\ response.called = response.group
             /\ response.callCount = response.count
             /\ response.err = response.allocErr
             /\ response.ts = response.allocTs

\* C5's case: a request was forwarded to, and served by, an allocator whose
\* leadership is not held (the lease expired and the loop has not yet
\* stepped down).
C5_Witness ==
    /\ response.called # 0
    /\ response.err = ""
    /\ ~leased[response.called]

\* C11: a GetAllocators(F) call, for any set F of filters (the empty one
\* too) and any registry, returns the allocators of exactly the registered
\* groups on which no filter of F returns true, each once, and leaves the
\* registry as it was.
C11_FilteredEnumeration ==
    /\ [](response.enumerated =>
            /\ \A i, j \in 1 .. Len(response.allocators) :
                   i # j => response.allocators[i] # response.allocators[j]
            /\ {response.allocators[i] : i \in 1 .. Len(response.allocators)} =
                   {g \in Registered :
                       \A f \in response.filters : ~ApplyFilter(f, g)})
    /\ [][response'.enumerated =>
            allocatorGroups' = allocatorGroups /\ groups' = groups]_vars

\* C11's case: of two registered groups, a call with the one filter
\* FilterUninitialized returned one and left the other out.
C11_Witness ==
    /\ response.enumerated
    /\ response.filters = {"FilterUninitialized"}
    /\ Cardinality(Registered) = 2
    /\ Len(response.allocators) = 1

\* C12: SetUpAllocator of the Global label has called Initialize when it
\* returns: the new group is registered, it is initialized exactly when nil
\* was returned, and the error returned is Initialize's; a Global group that
\* is not initialized has no update worker, so UpdateTSO is not called on
\* it; a HandleTSORequest for the Global label whose registered group is
\* not initialized still calls that group's allocator and does not return
\* ErrGetAllocator.
C12_GlobalSetupFailure ==
    /\ (response.setUp # 0 /\ dcLocationOf(response.setUp) = GlobalDCLocation) =>
          /\ allocatorGroups[GlobalDCLocation] = response.setUp
          /\ (response.err = "") = isInitialized(response.setUp)
          /\ response.err \in {"", "Initialize"}
    /\ \A g \in Created :
          (dcLocationOf(g) = GlobalDCLocation /\ ~isInitialized(g)) =>
              workers[g] = NoWorkers
    /\ (response.dc = GlobalDCLocation /\ response.group # 0
           /\ ~isInitialized(response.group)) =>
          /\ response.called = response.group
          /\ response.err # "ErrGetAllocator"

\* C12's case: a request for the Global label was forwarded to the
\* registered group, whose Initialize failed in SetUpAllocator (it was never
\* initialized and no worker has reset it), while the daemon runs.
C12_Witness ==
    /\ response.dc = GlobalDCLocation
    /\ response.called # 0
    /\ response.err = "GenerateTSO"
    /\ ~isInitialized(response.called)
    /\ ~unpaired[response.called]
    /\ leased[response.called]
    /\ dpc = "select"

\* C13: once its parentCtx is cancelled a leader loop makes no
\* CampaignAllocatorLeader call (with the KeepAllocatorLeader start that
\* follows a won campaign), no Initialize call and no EnableAllocatorLeader
\* call, wherever the cancellation found it, the watch included.  (The loop
\* looks at parentCtx at the top of an iteration only.)
C13_NoElectionAfterCancel ==
    [][\A g \in GroupIds :
        (g \in Created /\ cancelled[parentCtxOf(g)]) =>
            ~(Moved(g) /\ lpc[g] \in {"campaign", "initialize", "enable"})
      ]_vars

\* C14: while a HandleTSORequest call has its allocator's GenerateTSO in
\* progress it does not hold the registry lock (it held the read lock for
\* the lookup only), so a writer of the registry is not kept waiting by it.
C14_NoCallUnderLock ==
    reading.group # 0 => (~reading.rlock /\ canLock)

\* What a worker's step may not touch unless the claim says so.
WorkerLeaves(g) ==
    /\ leased' = leased
    /\ cancelled' = cancelled
    /\ persisted' = persisted
    /\ \A h \in GroupIds : h # g => tso'[h] = tso[h]

\* C15: a worker of g gets to its leadership re-check only with g's
\* parentCtx not cancelled at its select, and to UpdateTSO only with the
\* re-check true; with parentCtx cancelled it resets g's allocator and
\* returns, doing nothing else; with the re-check false it returns and
\* changes nothing; a worker cancels a scope only in the step in which its
\* UpdateTSO call returns (an error), and the scope is g's own.
C15_WorkerGuards ==
    [][\A g \in GroupIds :
        /\ workers'[g].check > workers[g].check =>
              /\ workers[g].start > 0
              /\ ~cancelled[parentCtxOf(g)]
              /\ tso' = tso /\ WorkerLeaves(g)
        /\ workers'[g].update > workers[g].update =>
              /\ workers[g].check > 0
              /\ leased[g]
              /\ tso' = tso /\ WorkerLeaves(g)
        /\ (workers'[g].start < workers[g].start /\ cancelled[parentCtxOf(g)]) =>
              /\ tso'[g] = ZeroTSO
              /\ workers'[g].check = workers[g].check
              /\ workers'[g].update = workers[g].update
              /\ WorkerLeaves(g)
        /\ (workers'[g].check < workers[g].check /\ ~leased[g]) =>
              /\ workers'[g].update = workers[g].update
              /\ tso' = tso /\ WorkerLeaves(g)
        /\ (workers' # workers /\ cancelled' # cancelled
              /\ workers'[g] # workers[g]) =>
              /\ workers'[g].update < workers[g].update
              /\ tso' = tso
              /\ cancelled' = [cancelled EXCEPT ![parentCtxOf(g)] = TRUE]
      ]_vars

\* C15's case: a worker passed both guards, its UpdateTSO failed and it
\* cancelled the scope of its group, which was leading.
C15_Witness ==
    \E g \in Created :
        /\ updateFailed[g]
        /\ cancelled[parentCtxOf(g)]
        /\ workers[g] = NoWorkers

\* C16: a group has a leader loop exactly when its label is not the Global
\* one; SetUpAllocator returns nil for a Local label; and whenever a loop
\* is running (from its first step on) its label is a key of the registry.
C16_LoopsOfRegisteredLocals ==
    /\ \A g \in Created :
          /\ (lpc[g] # "none") = (dcLocationOf(g) # GlobalDCLocation)
          /\ lpc[g] \notin {"none", "done"} =>
                /\ dcLocationOf(g) # GlobalDCLocation
                /\ dcLocationOf(g) \in {dc \in DCLocations : allocatorGroups[dc] # 0}
    /\ \A g \in GroupIds \ Created : lpc[g] = "none"
    /\ (response.setUp # 0 /\ dcLocationOf(response.setUp) # GlobalDCLocation) =>
          /\ response.err = ""
          /\ allocatorGroups[dcLocationOf(response.setUp)] = response.setUp
          /\ lpc[response.setUp] = "top"

\* C16's case: a Local group's loop is leading after its entry was replaced
\* by a later SetUpAllocator of the label, with another loop at its top.
C16_Witness ==
    /\ Len(groups) = MaxSetUps
    /\ \E g \in Created :
          /\ lpc[g] = "leading"
          /\ allocatorGroups[dcLocationOf(g)] # g
    /\ \E g \in Created : lpc[g] = "top"

\* The loops of a label that have not terminated.
LiveLoops(dc) == {g \in GroupsOf(dc) : lpc[g] \notin {"none", "done"}}

\* C17: at any time at most one leader loop that has not terminated exists
\* for a label, also after SetUpAllocator was called again for the label
\* with the earlier parentCtx not cancelled.
C17_OneLoopPerLabel ==
    \A dc \in DCLocations : Cardinality(LiveLoops(dc)) <= 1

\* Where a loop is inside campaignAllocatorLeader after a won campaign.
InHelper == {"initialize", "enable", "leading"} \cup Returning

\* C18: a keepalive worker is started only by a won CampaignAllocatorLeader
\* (the lease held); every return of the campaign helper after that, on a
\* failed Initialize, an expired lease or a cancelled parent, cancels the
\* child scope; so a loop outside the helper has no live keepalive scope
\* (and, one helper call opening one scope, a loop has at most one).
C18_KeepaliveScope ==
    /\ [](\A g \in GroupIds : keepalive[g] => lpc[g] \in InHelper)
    /\ [][\A g \in GroupIds :
            /\ (keepalive'[g] /\ ~keepalive[g]) =>
                  /\ lpc[g] = "campaign"
                  /\ lpc'[g] = "initialize"
                  /\ leased'[g]
            /\ (lpc[g] \in Returning /\ Moved(g)) =>
                  lpc'[g] = "top" /\ ~keepalive'[g]
            /\ (lpc[g] \in InHelper /\ lpc'[g] \notin InHelper) =>
                  lpc[g] \in Returning
          ]_vars

\* C18's case: the helper is returning on a failed Initialize with the
\* keepalive scope it opened still live.
C18_Witness ==
    \E g \in Created : lpc[g] = "initFailed" /\ keepalive[g]

\* C19: the reset a returning campaign helper triggers is applied to the
\* allocator and leadership of the group that campaigned, and to those of
\* no other group (the group registered for the label since, in
\* particular).
C19_ResetHitsCampaigner ==
    [][\A g \in GroupIds :
        (lpc[g] \in Returning /\ Moved(g)) =>
            /\ tso'[g] = ZeroTSO
            /\ ~leased'[g]
            /\ \A h \in GroupIds :
                  h # g => (tso'[h] = tso[h] /\ leased'[h] = leased[h])
      ]_vars

\* C20: an UpdateTSO call of a worker is made on an allocator that is
\* initialized at the call, whatever resets and cancellations came between
\* the tick's enumeration and the call.
C20_UpdateOnInitialized ==
    [][\A g \in GroupIds :
        workers'[g].update < workers[g].update => isInitialized(g)
      ]_vars

====
